---- MODULE Spec2Model ----
(***************************************************************************)
(* Wellness-Chatbot-AI: the doctor lookup (services/geminiService.ts,      *)
(* components/DoctorFinder.tsx) and the analysis / history flow of the App *)
(* component, as state machines.  Asynchronous handlers are split at their *)
(* await points; everything between two awaits is one atomic step, as in   *)
(* the single-threaded event loop the code runs on.                        *)
(***************************************************************************)
EXTENDS Integers, Sequences, FiniteSets, TLC

VARIABLES
    \* ---- DoctorFinder component state (DoctorFinder.tsx:13-16) ----
    loading,        \* useState(false)
    doctorResult,   \* useState<DoctorSearchResult|null>: << >> is null, <<r>> a value
    doctorError,    \* useState<string|null>: << >> is null, <<msg>> a value
    status,         \* useState<string>("")
    geoSupported,   \* whether navigator.geolocation exists in this browser
    geoPending,     \* a getCurrentPosition request is waiting for its callback
    geoFailure,     \* << >> or <<code of the error the error callback was given>>
    lookups,        \* number of clicks on the find-doctors control so far
    \* ---- one findNearbyDoctors invocation (geminiService.ts:144-225) ----
    fdPc,           \* "idle" | "stage1" | "stage2" | "returned" | "thrown"
    fdInFlight,     \* generateContent requests issued and not yet settled
    fdIssued,       \* requests issued by the current invocation, in order
    fdStage1,       \* "none" | "pending" | "hit" | "empty" | "error"
    fdStage1Response, \* << >> or <<the response of the maps-grounded request>>
    fdStage1Result, \* << >> or <<local `result` of geminiService.ts:194>>
    fdStage2,       \* "none" | "pending" | "ok" | "error"
    fdStage2Response, \* << >> or <<the response of the web-search request>>
    fdReturn,       \* << >> or <<value the invocation resolved with>>
    fdThrown,       \* << >> or <<message of the Error the invocation rejected with>>
    \* ---- App component state (App, part_000:66-80) ----
    mounted,        \* the mount effects have run
    symptoms,       \* useState('')
    selectedImage,  \* useState<ImageState|null>: FALSE is null, TRUE an uploaded image
    vitals,         \* useState<Vitals>: every field a string, << >> the empty string
    isAnalyzing,    \* useState(false)
    result,         \* useState<AnalysisResult|null>: << >> or <<r>>
    error,          \* useState<string|null>: << >> or <<msg>>
    history,        \* useState<HistoryItem[]>([]), newest first
    trendInsights,  \* useState<TrendInsight[]>([])
    localAnalysis,  \* useState<LocalAnalysis[]>([])
    storage,        \* localStorage item 'healthlens_history'
    closure,        \* << >> or <<state captured by the running handleAnalyze call>>
    nextId,         \* ordinal of the next history item (its id and timestamp)
    analyses,       \* number of accepted submits so far
    cleared,        \* ids of the items that were in the history at some clearHistory
    \* ---- one analyzeSymptoms invocation (geminiService.ts:5-142) ----
    asPc,           \* "idle" | "awaiting" | "returned" | "thrown"
    asCalls,        \* generateContent calls issued by the current invocation
    asArgs,         \* << >> or <<arguments of the invocation that is awaited>>
    asPrompt,       \* << >> or <<text part of the request that is awaited>>
    asResponse,     \* << >> or <<the response received>>
    asCause,        \* << >> or <<the error generateContent raised>>
    asReturn,       \* << >> or <<the AnalysisResult the invocation resolved with>>
    asThrown,       \* << >> or <<message of the Error the invocation rejected with>>
    \* ---- one calculateTrends call on its own (part_000:163-194) ----
    trArgs,         \* << >> or <<[currentVitals, historyData] of the last call>>
    trReturn        \* the insights the last call returned

appVars == <<mounted, symptoms, selectedImage, vitals, isAnalyzing, result, error,
             history, trendInsights, localAnalysis, storage, closure, nextId, analyses, cleared,
             asPc, asCalls, asArgs, asPrompt, asResponse, asCause, asReturn, asThrown,
             trArgs, trReturn>>

trendVars == <<trArgs, trReturn>>

docVars == <<loading, doctorResult, doctorError, status, geoSupported, geoPending,
             geoFailure, lookups, fdPc, fdInFlight, fdIssued, fdStage1, fdStage1Response,
             fdStage1Result, fdStage2, fdStage2Response, fdReturn, fdThrown>>

-----------------------------------------------------------------------------
(* Bounds *)

MaxLookups == 2
MaxAnalyses == 1

-----------------------------------------------------------------------------
(* Remote responses of the doctor lookup *)

\* A grounding chunk carries either a maps reference or a web reference;
\* an empty string is a missing (falsy) field.
MapsChunk(t, u, a) == [type |-> "maps", title |-> t, uri |-> u, address |-> a]
WebChunk(t, u) == [type |-> "web", title |-> t, uri |-> u, address |-> ""]

GroundingLists ==
    { << >>,
      << MapsChunk("City Clinic", "maps://clinic", "1 Main St") >>,
      << WebChunk("Dr. Rao", "https://rao.example") >>,
      << MapsChunk("", "maps://untitled", "2 Side St") >>,
      << WebChunk("No link", "") >>,
      << WebChunk("Dr. Rao", "https://rao.example"),
         MapsChunk("City Clinic", "maps://clinic", "1 Main St") >>,
      << MapsChunk("City Clinic", "maps://clinic", "1 Main St"),
         MapsChunk("", "maps://untitled", "2 Side St"),
         MapsChunk("North Hospital", "maps://north", "") >> }

\* response.text is "" when the model returned no text.
DoctorTexts == {"", "Three facilities near you"}

\* hasChunks = FALSE: candidates[0].groundingMetadata.groundingChunks is undefined.
DoctorResponses ==
    [text : DoctorTexts, hasChunks : {TRUE}, chunks : GroundingLists]
      \cup [text : DoctorTexts, hasChunks : {FALSE}, chunks : {<< >>}]

RemoteErrors == {"network", "auth", "service"}

\* GeolocationPositionError.code: 1 denied, 2 unavailable, 3 timeout.
GeoErrorCodes == {1, 2, 3}

-----------------------------------------------------------------------------
(* processResponse, geminiService.ts:147-171 *)

ChunkSource(chunk) ==
    IF chunk.type = "maps" /\ chunk.uri # "" /\ chunk.title # ""
    THEN << [title |-> chunk.title, uri |-> chunk.uri, address |-> chunk.address] >>
    ELSE IF chunk.type = "web" /\ chunk.uri # "" /\ chunk.title # ""
    THEN << [title |-> chunk.title, uri |-> chunk.uri, address |-> ""] >>
    ELSE << >>

RECURSIVE CollectSources(_)
CollectSources(chunks) ==
    IF chunks = << >> THEN << >>
    ELSE ChunkSource(Head(chunks)) \o CollectSources(Tail(chunks))

processResponse(response, defaultTitle) ==
    [content |-> IF response.text # "" THEN response.text ELSE defaultTitle,
     mapSources |-> IF response.hasChunks THEN CollectSources(response.chunks) ELSE << >>]

\* Variant: the early return asks for more than one citation.
Stage1ReturnsOnlyOnSeveral(found) == Len(found.mapSources) > 1

\* geminiService.ts:197: "if we found map sources, return immediately"
Stage1Returns(found) == Len(found.mapSources) > 0

DoctorLookupFailedMsg == "Failed to locate nearby doctors."

-----------------------------------------------------------------------------
(* DoctorFinder.handleFindDoctors, DoctorFinder.tsx:18-68 *)

\* Variant: every failure is reported with the default sentence.
GeoErrorMsgGeneric(code) == "Unable to retrieve your location."

\* DoctorFinder.tsx:57-62
GeoErrorMsg(code) ==
    IF code = 3 THEN "Location request timed out."
    ELSE IF code = 2 THEN "Location unavailable. Please check your GPS/Network."
    ELSE IF code = 1 THEN "Location access denied. Please enable permissions."
    ELSE "Unable to retrieve your location."

\* The control is rendered only while there is no result and no lookup running
\* (DoctorFinder.tsx:91).
FindControlShown == doctorResult = << >> /\ ~loading

fdVars == <<fdPc, fdInFlight, fdIssued, fdStage1, fdStage1Response, fdStage1Result,
            fdStage2, fdStage2Response, fdReturn, fdThrown>>

HandleFindDoctors ==
    /\ FindControlShown
    /\ lookups < MaxLookups
    /\ lookups' = lookups + 1
    /\ status' = "Requesting location access..."
    /\ geoFailure' = << >>
    /\ IF ~geoSupported
       THEN /\ doctorError' = << "Geolocation is not supported by your browser" >>
            /\ loading' = FALSE
            /\ geoPending' = FALSE
       ELSE /\ doctorError' = << >>
            /\ loading' = TRUE
            /\ geoPending' = TRUE
    /\ UNCHANGED <<doctorResult, geoSupported>>
    /\ UNCHANGED fdVars
    /\ UNCHANGED appVars

\* Variant: both grounded requests are started together.
GeoSuccessRacing ==
    /\ geoPending
    /\ geoPending' = FALSE
    /\ status' = "Location found. Searching for specialists..."
    /\ fdPc' = "stage1"
    /\ fdInFlight' = fdInFlight \cup {"maps", "search"}
    /\ fdIssued' = << "maps", "search" >>
    /\ fdStage1' = "pending"
    /\ fdStage2' = "pending"
    /\ fdStage1Response' = << >>
    /\ fdStage1Result' = << >>
    /\ fdStage2Response' = << >>
    /\ fdReturn' = << >>
    /\ fdThrown' = << >>
    /\ UNCHANGED <<loading, doctorResult, doctorError, geoSupported, geoFailure, lookups>>
    /\ UNCHANGED appVars

\* Success callback up to its await: findNearbyDoctors starts and issues the
\* maps-grounded request (DoctorFinder.tsx:37-42, geminiService.ts:174-192).
GeoSuccess ==
    /\ geoPending
    /\ geoPending' = FALSE
    /\ status' = "Location found. Searching for specialists..."
    /\ fdPc' = "stage1"
    /\ fdInFlight' = fdInFlight \cup {"maps"}
    /\ fdIssued' = << "maps" >>
    /\ fdStage1' = "pending"
    /\ fdStage2' = "none"
    /\ fdStage1Response' = << >>
    /\ fdStage1Result' = << >>
    /\ fdStage2Response' = << >>
    /\ fdReturn' = << >>
    /\ fdThrown' = << >>
    /\ UNCHANGED <<loading, doctorResult, doctorError, geoSupported, geoFailure, lookups>>
    /\ UNCHANGED appVars

\* Error callback (DoctorFinder.tsx:56-65).
GeoError(code) ==
    /\ geoPending
    /\ geoPending' = FALSE
    /\ geoFailure' = << code >>
    /\ doctorError' = << GeoErrorMsg(code) >>
    /\ loading' = FALSE
    /\ UNCHANGED <<doctorResult, status, geoSupported, lookups>>
    /\ UNCHANGED fdVars
    /\ UNCHANGED appVars

\* findNearbyDoctors resolved with data: DoctorFinder.tsx:43-49 and 52-54.
LookupResolved(data) ==
    /\ doctorResult' = << data >>
    /\ status' = IF Len(data.mapSources) = 0
                 THEN "Note: Specific map pins weren't returned, but here are relevant search results."
                 ELSE ""
    /\ loading' = FALSE
    /\ UNCHANGED doctorError

\* Variant: the catch block without the finally block.
LookupRejectedStillLoading(msg) ==
    /\ doctorError' = << msg >>
    /\ UNCHANGED <<loading, doctorResult, status>>

\* findNearbyDoctors rejected: DoctorFinder.tsx:50-54.
LookupRejected(msg) ==
    /\ doctorError' = << msg >>
    /\ loading' = FALSE
    /\ UNCHANGED <<doctorResult, status>>

\* The fallback request of geminiService.ts:206-218 is issued.
IssueStage2 ==
    /\ fdPc' = "stage2"
    /\ fdInFlight' = (fdInFlight \ {"maps"}) \cup {"search"}
    /\ fdIssued' = Append(fdIssued, "search")
    /\ fdStage2' = "pending"
    /\ UNCHANGED <<fdStage2Response, fdReturn, fdThrown>>
    /\ UNCHANGED <<loading, doctorResult, doctorError, status>>

\* The maps-grounded request answers (geminiService.ts:194-200).
Stage1Respond(response) ==
    /\ fdPc = "stage1"
    /\ "maps" \in fdInFlight
    /\ LET found == processResponse(response, "Maps Search Results") IN
       /\ fdStage1Response' = << response >>
       /\ fdStage1Result' = << found >>
       /\ IF Stage1Returns(found)
          THEN /\ fdStage1' = "hit"
               /\ fdPc' = "returned"
               /\ fdInFlight' = fdInFlight \ {"maps"}
               /\ fdReturn' = << found >>
               /\ LookupResolved(found)
               /\ UNCHANGED <<fdIssued, fdStage2, fdStage2Response, fdThrown>>
          ELSE /\ fdStage1' = "empty"
               /\ IssueStage2
    /\ UNCHANGED <<geoSupported, geoPending, geoFailure, lookups>>
    /\ UNCHANGED appVars

\* Variant: the first catch block surfaces the error instead of falling back.
Stage1FailSurfaced(err) ==
    /\ fdPc = "stage1"
    /\ "maps" \in fdInFlight
    /\ fdStage1' = "error"
    /\ fdPc' = "thrown"
    /\ fdInFlight' = fdInFlight \ {"maps"}
    /\ fdThrown' = << DoctorLookupFailedMsg >>
    /\ LookupRejected(DoctorLookupFailedMsg)
    /\ UNCHANGED <<fdIssued, fdStage1Response, fdStage1Result, fdStage2,
                   fdStage2Response, fdReturn>>
    /\ UNCHANGED <<geoSupported, geoPending, geoFailure, lookups>>
    /\ UNCHANGED appVars

\* The maps-grounded request fails (geminiService.ts:201-203).
Stage1Fail(err) ==
    /\ fdPc = "stage1"
    /\ "maps" \in fdInFlight
    /\ fdStage1' = "error"
    /\ UNCHANGED <<fdStage1Response, fdStage1Result>>
    /\ IssueStage2
    /\ UNCHANGED <<geoSupported, geoPending, geoFailure, lookups>>
    /\ UNCHANGED appVars

\* Variant: the fallback keeps the web-type entries of its reply only.
Stage2RespondWebOnly(response) ==
    /\ fdPc = "stage2"
    /\ "search" \in fdInFlight
    /\ LET IsWeb(chunk) == chunk.type = "web"
           found == processResponse([response EXCEPT !.chunks = SelectSeq(@, IsWeb)],
                                    "Search Results")
       IN /\ fdStage2Response' = << response >>
          /\ fdStage2' = "ok"
          /\ fdPc' = "returned"
          /\ fdInFlight' = fdInFlight \ {"search"}
          /\ fdReturn' = << found >>
          /\ LookupResolved(found)
    /\ UNCHANGED <<fdIssued, fdStage1, fdStage1Response, fdStage1Result, fdThrown>>
    /\ UNCHANGED <<geoSupported, geoPending, geoFailure, lookups>>
    /\ UNCHANGED appVars

\* The web-search request answers (geminiService.ts:220).
Stage2Respond(response) ==
    /\ fdPc = "stage2"
    /\ "search" \in fdInFlight
    /\ LET found == processResponse(response, "Search Results") IN
       /\ fdStage2Response' = << response >>
       /\ fdStage2' = "ok"
       /\ fdPc' = "returned"
       /\ fdInFlight' = fdInFlight \ {"search"}
       /\ fdReturn' = << found >>
       /\ LookupResolved(found)
    /\ UNCHANGED <<fdIssued, fdStage1, fdStage1Response, fdStage1Result, fdThrown>>
    /\ UNCHANGED <<geoSupported, geoPending, geoFailure, lookups>>
    /\ UNCHANGED appVars

\* Variant: a failed fallback resolves with an empty result instead of rejecting.
Stage2FailSwallowed(err) ==
    /\ fdPc = "stage2"
    /\ "search" \in fdInFlight
    /\ fdStage2' = "error"
    /\ fdPc' = "returned"
    /\ fdInFlight' = fdInFlight \ {"search"}
    /\ fdReturn' = << [content |-> "Search Results", mapSources |-> << >>] >>
    /\ LookupResolved([content |-> "Search Results", mapSources |-> << >>])
    /\ UNCHANGED <<fdIssued, fdStage1, fdStage1Response, fdStage1Result,
                   fdStage2Response, fdThrown>>
    /\ UNCHANGED <<geoSupported, geoPending, geoFailure, lookups>>
    /\ UNCHANGED appVars

\* The web-search request fails (geminiService.ts:221-224).
Stage2Fail(err) ==
    /\ fdPc = "stage2"
    /\ "search" \in fdInFlight
    /\ fdStage2' = "error"
    /\ fdPc' = "thrown"
    /\ fdInFlight' = fdInFlight \ {"search"}
    /\ fdThrown' = << DoctorLookupFailedMsg >>
    /\ LookupRejected(DoctorLookupFailedMsg)
    /\ UNCHANGED <<fdIssued, fdStage1, fdStage1Response, fdStage1Result,
                   fdStage2Response, fdReturn>>
    /\ UNCHANGED <<geoSupported, geoPending, geoFailure, lookups>>
    /\ UNCHANGED appVars

DocInit ==
    /\ loading = FALSE
    /\ doctorResult = << >>
    /\ doctorError = << >>
    /\ status = ""
    /\ geoSupported \in BOOLEAN
    /\ geoPending = FALSE
    /\ geoFailure = << >>
    /\ lookups = 0
    /\ fdPc = "idle"
    /\ fdInFlight = {}
    /\ fdIssued = << >>
    /\ fdStage1 = "none"
    /\ fdStage1Response = << >>
    /\ fdStage1Result = << >>
    /\ fdStage2 = "none"
    /\ fdStage2Response = << >>
    /\ fdReturn = << >>
    /\ fdThrown = << >>

DocNext ==
    \/ HandleFindDoctors
    \/ GeoSuccess
    \/ \E code \in GeoErrorCodes : GeoError(code)
    \/ \E response \in DoctorResponses : Stage1Respond(response)
    \/ \E err \in RemoteErrors : Stage1Fail(err)
    \/ \E response \in DoctorResponses : Stage2Respond(response)
    \/ \E err \in RemoteErrors : Stage2Fail(err)


-----------------------------------------------------------------------------
(* Text.  A string is a sequence of tokens: single characters, and words     *)
(* that no modelled operation looks inside.                                  *)

Digits == {"0", "1", "2", "3", "4", "5", "6", "7", "8", "9"}

DigitValue(d) ==
    CASE d = "0" -> 0 [] d = "1" -> 1 [] d = "2" -> 2 [] d = "3" -> 3 [] d = "4" -> 4
      [] d = "5" -> 5 [] d = "6" -> 6 [] d = "7" -> 7 [] d = "8" -> 8 [] d = "9" -> 9

Words == {"CONFIDENCE_SCORE", "CONFIDENCE_LABEL", "High", "Medium", "Low", "Maybe",
          "Intro", "Body", "text", "_"}

\* The classes \s, \d and \w of the regular expressions.
SpaceToks == {" ", "\t", "\n", "\r"}
DigitToks == Digits
WordToks == Digits \cup Words

\* Length of the longest run of tokens of s, starting at index i, that are in class.
RECURSIVE RunLength(_, _, _)
RunLength(s, i, class) ==
    IF i > Len(s) \/ s[i] \notin class THEN 0 ELSE 1 + RunLength(s, i + 1, class)

RECURSIVE DigitsValue(_)
DigitsValue(ds) ==
    IF ds = << >> THEN 0
    ELSE 10 * DigitsValue(SubSeq(ds, 1, Len(ds) - 1)) + DigitValue(ds[Len(ds)])

\* parseInt(s, 10): << >> is NaN, <<n>> the parsed integer.  Leading white
\* space is skipped, a sign is accepted, parsing stops at the first non-digit.
parseInt(s) ==
    LET start == 1 + RunLength(s, 1, SpaceToks)
        neg == start <= Len(s) /\ s[start] = "-"
        first == IF start <= Len(s) /\ s[start] \in {"-", "+"} THEN start + 1 ELSE start
        n == RunLength(s, first, DigitToks)
    IN IF n = 0 THEN << >>
       ELSE << (IF neg THEN -1 ELSE 1) * DigitsValue(SubSeq(s, first, first + n - 1)) >>

\* x || 0 for a parsed number: NaN and 0 both give 0.
OrZero(p) == IF p = << >> THEN 0 ELSE p[1]

RECURSIVE ToDigits(_)
ToDigits(n) ==
    IF n < 10 THEN << CHOOSE d \in Digits : DigitValue(d) = n >>
    ELSE Append(ToDigits(n \div 10), CHOOSE d \in Digits : DigitValue(d) = n % 10)

\* String.prototype.trim
trim(s) ==
    LET lead == RunLength(s, 1, SpaceToks) IN
    IF lead = Len(s) THEN << >>
    ELSE LET last == CHOOSE k \in 1..Len(s) :
                        /\ s[k] \notin SpaceToks
                        /\ \A m \in (k + 1)..Len(s) : s[m] \in SpaceToks
         IN SubSeq(s, lead + 1, last)

\* String.prototype.split('\n')
RECURSIVE split(_)
split(s) ==
    IF \A i \in 1..Len(s) : s[i] # "\n" THEN << s >>
    ELSE LET k == CHOOSE i \in 1..Len(s) : s[i] = "\n" /\ \A j \in 1..(i - 1) : s[j] # "\n"
         IN << SubSeq(s, 1, k - 1) >> \o split(SubSeq(s, k + 1, Len(s)))

\* Array.prototype.join('\n')
RECURSIVE join(_)
join(lines) ==
    IF lines = << >> THEN << >>
    ELSE IF Len(lines) = 1 THEN lines[1]
    ELSE lines[1] \o << "\n" >> \o join(Tail(lines))

\* Array.prototype.slice(0, n)
Slice(seq, n) == SubSeq(seq, 1, IF Len(seq) < n THEN Len(seq) ELSE n)

-----------------------------------------------------------------------------
(* analyzeSymptoms, geminiService.ts:5-142 *)

NoTextPlaceholder == << "Unable to generate analysis. Please try again." >>
AnalysisFailedMsg ==
    "Failed to analyze symptoms. Please check your connection or try a different image."

\* Variant: an empty reply is passed on as it is.
FullTextWithoutFallback(response) == IF response.hasText THEN response.text ELSE << >>

\* geminiService.ts:88: response.text || "Unable to generate analysis. ..."
FullText(response) ==
    IF response.hasText /\ response.text # << >> THEN response.text ELSE NoTextPlaceholder

\* firstLine.includes('CONFIDENCE_SCORE:'), geminiService.ts:97
HasMarker(line) ==
    \E i \in 1..(Len(line) - 1) : line[i] = "CONFIDENCE_SCORE" /\ line[i + 1] = ":"

\* line.match(/<key>:\s*(<class>+)/): << >> when there is no match, else
\* <<captured tokens>> of the leftmost match (geminiService.ts:99-100).
MatchAfter(line, key, class) ==
    LET Hit(i) == /\ i + 1 <= Len(line)
                  /\ line[i] = key
                  /\ line[i + 1] = ":"
                  /\ RunLength(line, i + 2 + RunLength(line, i + 2, SpaceToks), class) > 0
        hits == {i \in 1..Len(line) : Hit(i)}
    IN IF hits = {} THEN << >>
       ELSE LET i == CHOOSE h \in hits : \A g \in hits : h <= g
                from == i + 2 + RunLength(line, i + 2, SpaceToks)
            IN << SubSeq(line, from, from + RunLength(line, from, class) - 1) >>

\* Variant: the confidence assumed before the header is read is the middle one.
DefaultConfidenceMedium == [score |-> 50, label |-> << "Medium" >>]

\* geminiService.ts:90: let confidence = { score: 0, label: "Low" }
DefaultConfidence == [score |-> 0, label |-> << "Low" >>]

\* Variant: the header line stays in the content.
ParseConfidenceKeepingHeader(fullText) ==
    LET lines == split(fullText)
        firstLine == trim(lines[1])
        scoreMatch == MatchAfter(firstLine, "CONFIDENCE_SCORE", DigitToks)
        labelMatch == MatchAfter(firstLine, "CONFIDENCE_LABEL", WordToks)
    IN IF HasMarker(firstLine) /\ scoreMatch # << >> /\ labelMatch # << >>
       THEN [confidence |-> [score |-> OrZero(parseInt(scoreMatch[1])),
                             label |-> labelMatch[1]],
             content |-> trim(fullText)]
       ELSE [confidence |-> DefaultConfidence, content |-> fullText]

\* geminiService.ts:90-116
ParseConfidence(fullText) ==
    LET lines == split(fullText)
        firstLine == trim(lines[1])
        scoreMatch == MatchAfter(firstLine, "CONFIDENCE_SCORE", DigitToks)
        labelMatch == MatchAfter(firstLine, "CONFIDENCE_LABEL", WordToks)
    IN IF HasMarker(firstLine) /\ scoreMatch # << >> /\ labelMatch # << >>
       THEN [confidence |-> [score |-> OrZero(parseInt(scoreMatch[1])),
                             label |-> labelMatch[1]],
             content |-> trim(join(Tail(lines)))]
       ELSE [confidence |-> DefaultConfidence, content |-> fullText]

\* Variant: any grounding entry with a title and a URI is cited.
WebSourceAnyType(chunk) ==
    IF chunk.uri # "" /\ chunk.title # ""
    THEN << [title |-> chunk.title, uri |-> chunk.uri] >>
    ELSE << >>

\* geminiService.ts:118-130
WebSource(chunk) ==
    IF chunk.type = "web" /\ chunk.uri # "" /\ chunk.title # ""
    THEN << [title |-> chunk.title, uri |-> chunk.uri] >>
    ELSE << >>

RECURSIVE CollectWebSources(_)
CollectWebSources(chunks) ==
    IF chunks = << >> THEN << >>
    ELSE WebSource(Head(chunks)) \o CollectWebSources(Tail(chunks))

\* The value analyzeSymptoms resolves with, geminiService.ts:88-137
AnalysisResultOf(response, language) ==
    LET parsed == ParseConfidence(FullText(response)) IN
    [content |-> parsed.content,
     confidence |-> parsed.confidence,
     language |-> language,
     sources |-> IF response.hasChunks THEN CollectWebSources(response.chunks) ELSE << >>]

\* Variant: the caught error's own message is passed on.
AnalysisErrorVerbatim(err) == err

\* geminiService.ts:138-141: whatever was caught, the same Error is thrown.
AnalysisErrorMessage(err) == AnalysisFailedMsg

asVars == <<asPc, asCalls, asArgs, asPrompt, asResponse, asCause, asReturn, asThrown>>

\* geminiService.ts:15-26.  Field values are token sequences, the fixed
\* pieces of text single tokens; " F" stands for the degree sign and F.
VitalsParts(v) ==
    (IF v.temp # << >> THEN << << "Temperature: " >> \o v.temp \o << " F" >> >> ELSE << >>)
      \o (IF v.hr # << >> THEN << << "Heart Rate: " >> \o v.hr \o << " bpm" >> >> ELSE << >>)
      \o (IF v.bpSys # << >> /\ v.bpDia # << >>
          THEN << << "Blood Pressure: " >> \o v.bpSys \o << "/" >> \o v.bpDia \o << " mmHg" >> >>
          ELSE << >>)
      \o (IF v.spo2 # << >> THEN << << "Oxygen Saturation: " >> \o v.spo2 \o << "%" >> >>
          ELSE << >>)

VitalsContext(v) ==
    IF Len(VitalsParts(v)) > 0
    THEN << "\n", "PATIENT VITALS:", "\n" >> \o join(VitalsParts(v)) \o << "\n" >>
    ELSE << >>

\* The prompt of geminiService.ts:47-62, line by line.
BuildPrompt(symptomsArg, image, vitalsArg, language) ==
    << "Analyze the provided ", IF image THEN "medical image/photo" ELSE "symptoms", ".", "\n",
       "Patient Context:", "\n", "\"", symptomsArg, "\"", "\n" >>
      \o VitalsContext(vitalsArg)
      \o << "\n", "Structure your response in Markdown:", "\n",
            "1. Summary (in ", language, ")", "\n",
            "2. Potential Conditions (in ", language, ")", "\n",
            "3. Urgency (Low/Medium/High/Emergency) (in ", language, ")", "\n",
            "4. Recommendations (in ", language, ")", "\n",
            "Remember: First line ENGLISH metadata. Rest in ", language, ".", "\n" >>

\* analyzeSymptoms up to its await (geminiService.ts:11-86).
AnalyzeStart(symptomsArg, image, vitalsArg, language) ==
    /\ asPc' = "awaiting"
    /\ asCalls' = 1
    /\ asArgs' = << [symptoms |-> symptomsArg, image |-> image, vitals |-> vitalsArg,
                     language |-> language] >>
    /\ asPrompt' = << BuildPrompt(symptomsArg, image, vitalsArg, language) >>
    /\ asResponse' = << >>
    /\ asCause' = << >>
    /\ asReturn' = << >>
    /\ asThrown' = << >>

\* generateContent answered (geminiService.ts:88-137).
AnalyzeRespond(response, language) ==
    /\ asPc = "awaiting"
    /\ asPc' = "returned"
    /\ asResponse' = << response >>
    /\ asReturn' = << AnalysisResultOf(response, language) >>
    /\ asArgs' = << >>
    /\ asPrompt' = << >>
    /\ UNCHANGED <<asCalls, asCause, asThrown>>

\* generateContent raised (geminiService.ts:138-141).
AnalyzeFail(err) ==
    /\ asPc = "awaiting"
    /\ asPc' = "thrown"
    /\ asCause' = << err >>
    /\ asThrown' = << AnalysisErrorMessage(err) >>
    /\ asArgs' = << >>
    /\ asPrompt' = << >>
    /\ UNCHANGED <<asCalls, asResponse, asReturn>>

-----------------------------------------------------------------------------
(* Inputs of the App *)

EmptyString == << >>
VitalFields == {"temp", "hr", "bpSys", "bpDia", "spo2"}
NoVitals == [f \in VitalFields |-> EmptyString]

\* What the user types into each vitals field (besides clearing it).
VitalInputs ==
    [temp |-> { << "1", "0", "1" >> },
     hr |-> { << "7", "0" >>, << "8", "5" >> },
     bpSys |-> {},
     bpDia |-> {},
     spo2 |-> {}]

SymptomInputs == {"", "cough"}

\* symptoms.trim() is empty
IsBlank(s) == s \in {"", " "}

Headed == << "CONFIDENCE_SCORE", ":", " ", "7", "2", " ", "|", " ",
             "CONFIDENCE_LABEL", ":", " ", "Medium", "\n", "Body", " ", "text" >>

\* hasText = FALSE: response.text is undefined.
AppResponses ==
    { [hasText |-> FALSE, text |-> << >>, hasChunks |-> FALSE, chunks |-> << >>],
      [hasText |-> TRUE, text |-> << >>, hasChunks |-> TRUE,
       chunks |-> << WebChunk("Flu facts", "https://flu.example") >>],
      [hasText |-> TRUE, text |-> Headed, hasChunks |-> TRUE,
       chunks |-> << WebChunk("Flu facts", "https://flu.example"),
                     MapsChunk("City Clinic", "maps://clinic", "1 Main St") >>] }

\* part_000:299: the history keeps the 10 newest items.
HistoryCap == 10

\* An item written by an earlier session; item n was created n-th.
SavedItem(n) ==
    [id |-> n, symptoms |-> "cough", hasVitals |-> TRUE,
     vitals |-> [NoVitals EXCEPT !.hr = << "7", "0" >>]]

SavedList(n) == [i \in 1..n |-> SavedItem(n + 1 - i)]

\* localStorage item: absent (getItem gives null), text JSON.parse rejects, or
\* the JSON text of a list of items.
AbsentItem == [kind |-> "absent", items |-> << >>]
stringify(list) == [kind |-> "json", items |-> list]

\* The same list after analyses without a heart rate: its 5 newest items are
\* as handleAnalyze writes them when no vital sign is entered.
SavedListRecentEmpty ==
    [i \in 1..HistoryCap |->
        IF i <= 5 THEN [SavedItem(HistoryCap + 1 - i) EXCEPT !.vitals = NoVitals]
        ELSE SavedItem(HistoryCap + 1 - i)]

SavedStates ==
    { AbsentItem,
      [kind |-> "corrupt", items |-> << >>],
      stringify(SavedList(HistoryCap)),
      stringify(SavedListRecentEmpty) }

-----------------------------------------------------------------------------
(* Local analysis of the vitals, part_000:120-161 *)

RECURSIVE Pow10(_)
Pow10(k) == IF k = 0 THEN 1 ELSE 10 * Pow10(k - 1)

\* parseFloat(s) for decimal notation without exponent: << >> is NaN, else
\* <<[num, den]>>, the fraction num / den the text denotes.
parseFloat(s) ==
    LET start == 1 + RunLength(s, 1, SpaceToks)
        neg == start <= Len(s) /\ s[start] = "-"
        first == IF start <= Len(s) /\ s[start] \in {"-", "+"} THEN start + 1 ELSE start
        n == RunLength(s, first, DigitToks)
        dot == first + n <= Len(s) /\ s[first + n] = "."
        m == IF dot THEN RunLength(s, first + n + 1, DigitToks) ELSE 0
        whole == DigitsValue(SubSeq(s, first, first + n - 1))
        part == DigitsValue(SubSeq(s, first + n + 1, first + n + m))
    IN IF n = 0 /\ m = 0 THEN << >>
       ELSE << [num |-> (IF neg THEN -1 ELSE 1) * (whole * Pow10(m) + part),
                den |-> Pow10(m)] >>

\* p > num / den and p < num / den for a parsed float; false for NaN.
Above(p, num, den) == p # << >> /\ p[1].num * den > num * p[1].den
Below(p, num, den) == p # << >> /\ p[1].num * den < num * p[1].den

\* p > k and p < k for a parsed integer; false for NaN.
Over(p, k) == p # << >> /\ p[1] > k
Under(p, k) == p # << >> /\ p[1] < k

Alert(condition, severity, message) ==
    << [condition |-> condition, severity |-> severity, message |-> message] >>

\* Variant: 100.4 itself already counts as fever.
TempAlertInclusive(text) ==
    IF text = EmptyString THEN << >>
    ELSE LET temp == parseFloat(text) IN
         IF Above(temp, 103, 1)
         THEN Alert("High Fever", "critical", "Medical attention recommended immediately.")
         ELSE IF ~Below(temp, 1004, 10) /\ temp # << >>
         THEN Alert("Fever", "warning", "Monitor temperature closely.")
         ELSE IF Below(temp, 95, 1)
         THEN Alert("Hypothermia Risk", "critical", "Body temperature is dangerously low.")
         ELSE Alert("Temperature", "normal", "Within normal range.")

\* Fever check, part_000:124-131
TempAlert(text) ==
    IF text = EmptyString THEN << >>
    ELSE LET temp == parseFloat(text) IN
         IF Above(temp, 103, 1)
         THEN Alert("High Fever", "critical", "Medical attention recommended immediately.")
         ELSE IF Above(temp, 1004, 10)
         THEN Alert("Fever", "warning", "Monitor temperature closely.")
         ELSE IF Below(temp, 95, 1)
         THEN Alert("Hypothermia Risk", "critical", "Body temperature is dangerously low.")
         ELSE Alert("Temperature", "normal", "Within normal range.")

\* Variant: a heart rate of 120 already counts as tachycardia.
HrAlertInclusive(text) ==
    IF text = EmptyString THEN << >>
    ELSE LET hr == parseInt(text) IN
         IF Over(hr, 119)
         THEN Alert("Tachycardia", "critical", "Heart rate is significantly high.")
         ELSE IF Over(hr, 100)
         THEN Alert("Elevated HR", "warning", "Heart rate is above normal.")
         ELSE IF Under(hr, 50)
         THEN Alert("Bradycardia", "warning", "Heart rate is lower than normal.")
         ELSE Alert("Heart Rate", "normal", "Normal resting heart rate.")

\* Heart rate check, part_000:133-140
HrAlert(text) ==
    IF text = EmptyString THEN << >>
    ELSE LET hr == parseInt(text) IN
         IF Over(hr, 120)
         THEN Alert("Tachycardia", "critical", "Heart rate is significantly high.")
         ELSE IF Over(hr, 100)
         THEN Alert("Elevated HR", "warning", "Heart rate is above normal.")
         ELSE IF Under(hr, 50)
         THEN Alert("Bradycardia", "warning", "Heart rate is lower than normal.")
         ELSE Alert("Heart Rate", "normal", "Normal resting heart rate.")

\* Variant: one populated pressure field is enough, and a crisis needs both
\* values to be high.
BpAlertEitherField(sysText, diaText) ==
    IF sysText = EmptyString /\ diaText = EmptyString THEN << >>
    ELSE LET sys == parseInt(sysText)
             dia == parseInt(diaText)
         IN IF Over(sys, 180) /\ Over(dia, 120)
            THEN Alert("Hypertensive Crisis", "critical", "Seek emergency care immediately.")
            ELSE IF Over(sys, 140) \/ Over(dia, 90)
            THEN Alert("High BP", "warning", "Stage 2 Hypertension range.")
            ELSE IF Over(sys, 130) \/ Over(dia, 80)
            THEN Alert("Elevated BP", "warning", "Stage 1 Hypertension range.")
            ELSE Alert("Blood Pressure", "normal", "Normal healthy range.")

\* Blood pressure check, part_000:142-150
BpAlert(sysText, diaText) ==
    IF sysText = EmptyString \/ diaText = EmptyString THEN << >>
    ELSE LET sys == parseInt(sysText)
             dia == parseInt(diaText)
         IN IF Over(sys, 180) \/ Over(dia, 120)
            THEN Alert("Hypertensive Crisis", "critical", "Seek emergency care immediately.")
            ELSE IF Over(sys, 140) \/ Over(dia, 90)
            THEN Alert("High BP", "warning", "Stage 2 Hypertension range.")
            ELSE IF Over(sys, 130) \/ Over(dia, 80)
            THEN Alert("Elevated BP", "warning", "Stage 1 Hypertension range.")
            ELSE Alert("Blood Pressure", "normal", "Normal healthy range.")

\* SpO2 check, part_000:152-158
Spo2Alert(text) ==
    IF text = EmptyString THEN << >>
    ELSE LET spo2 == parseInt(text) IN
         IF Under(spo2, 90)
         THEN Alert("Hypoxia Risk", "critical", "Oxygen levels are dangerously low.")
         ELSE IF Under(spo2, 95)
         THEN Alert("Low Oxygen", "warning", "Oxygen saturation is below optimal.")
         ELSE Alert("Oxygen Level", "normal", "Normal saturation.")

\* The list the effect hands to setLocalAnalysis, part_000:121-160
LocalAlerts(v) ==
    TempAlert(v.temp) \o HrAlert(v.hr) \o BpAlert(v.bpSys, v.bpDia) \o Spo2Alert(v.spo2)

\* Temperatures typed into the form, each with the number of hundredths of a
\* degree it denotes.
TempSamples ==
    { [text |-> << "9", "4", ".", "9" >>, hundredths |-> 9490],
      [text |-> << "9", "5" >>, hundredths |-> 9500],
      [text |-> << "1", "0", "0", ".", "4" >>, hundredths |-> 10040],
      [text |-> << "1", "0", "0", ".", "4", "1" >>, hundredths |-> 10041],
      [text |-> << "1", "0", "3" >>, hundredths |-> 10300],
      [text |-> << "1", "0", "3", ".", "0" >>, hundredths |-> 10300],
      [text |-> << "1", "0", "3", ".", "1" >>, hundredths |-> 10310] }

\* Whole numbers typed into the form, each with the number it denotes.
WholeSamples ==
    { [text |-> << "4", "9" >>, value |-> 49],
      [text |-> << "5", "0" >>, value |-> 50],
      [text |-> << "8", "0" >>, value |-> 80],
      [text |-> << "8", "1" >>, value |-> 81],
      [text |-> << "8", "9" >>, value |-> 89],
      [text |-> << "9", "0" >>, value |-> 90],
      [text |-> << "9", "1" >>, value |-> 91],
      [text |-> << "9", "7" >>, value |-> 97],
      [text |-> << "1", "0", "0" >>, value |-> 100],
      [text |-> << "1", "0", "1" >>, value |-> 101],
      [text |-> << "1", "2", "0" >>, value |-> 120],
      [text |-> << "1", "2", "1" >>, value |-> 121],
      [text |-> << "1", "3", "0" >>, value |-> 130],
      [text |-> << "1", "3", "1" >>, value |-> 131],
      [text |-> << "1", "4", "0" >>, value |-> 140],
      [text |-> << "1", "4", "1" >>, value |-> 141],
      [text |-> << "1", "8", "0" >>, value |-> 180],
      [text |-> << "1", "8", "1" >>, value |-> 181] }

WholeTexts(values) == {r.text : r \in {q \in WholeSamples : q.value \in values}}

\* What is typed into each vitals field when the local analysis is exercised.
VitalSamples ==
    [temp |-> {r.text : r \in TempSamples},
     hr |-> WholeTexts({49, 50, 100, 101, 120, 121}),
     bpSys |-> WholeTexts({130, 131, 140, 141, 180, 181}),
     bpDia |-> WholeTexts({80, 81, 90, 91, 120, 121}),
     spo2 |-> WholeTexts({89, 97})]

-----------------------------------------------------------------------------
(* calculateTrends, part_000:164-194 *)

RECURSIVE SumHr(_)
SumHr(items) ==
    IF items = << >> THEN 0
    ELSE OrZero(parseInt(IF Head(items).vitals.hr # EmptyString
                         THEN Head(items).vitals.hr ELSE << "0" >>))
         + SumHr(Tail(items))

Abs(x) == IF x < 0 THEN -x ELSE x

HasVitals(h) == h.hasVitals

\* Variant: the five newest entries are taken first, and those without vitals
\* are dropped afterwards.
RecentHistorySliceFirst(historyData) == SelectSeq(Slice(historyData, 5), HasVitals)

\* part_000:166: historyData.filter(h => h.vitals).slice(0, 5)
RecentHistory(historyData) == Slice(SelectSeq(historyData, HasVitals), 5)

\* Variant: only the division by zero is kept out.
MeanUsableUnguarded(sum, count) == count > 0

\* part_000:174: avgHR > 0, with avgHR = sum / count; 0 / 0 is NaN, which
\* fails the comparison.
MeanUsable(sum, count) == count > 0 /\ sum > 0

\* percentChange is computed in IEEE-754 doubles (part_000:172-177).  For
\* the heart rates used here the double lies on the same side of every
\* decision point (10, -10, the halves at which Math.round turns) as the
\* exact value, except where the exact value is such a point and the mean is
\* not representable: sign is that of (double - exact) there.
\* ((69 - 230/3) / (230/3)) * 100 evaluates to -10.000000000000005.
DoubleSlips == { [current |-> 69, sum |-> 230, count |-> 3, sign |-> -1] }

Slip(current, sum, count) ==
    LET hits == {d \in DoubleSlips :
                    d.current = current /\ d.sum = sum /\ d.count = count}
    IN IF hits = {} THEN 0 ELSE (CHOOSE d \in hits : TRUE).sign

\* The mean is kept as the fraction sum / count, so that percentChange is
\* num / sum with num = (currentHR * count - sum) * 100.
calculateTrends(currentVitals, historyData) ==
    LET HasHr(h) == h.hasVitals /\ h.vitals.hr # EmptyString
        recentHistory == RecentHistory(historyData)
        currentHR == parseInt(currentVitals.hr)
        sum == SumHr(recentHistory)
        count == Len(SelectSeq(recentHistory, HasHr))
        num == (currentHR[1] * count - sum) * 100
        slip == Slip(currentHR[1], sum, count)
        \* Math.abs(percentChange) > 10; a zero mean makes it Infinity or NaN
        over == IF sum = 0 THEN num # 0
                ELSE \/ Abs(num) > 10 * sum
                     \/ Abs(num) = 10 * sum /\ ((num > 0 /\ slip > 0) \/ (num < 0 /\ slip < 0))
        \* Math.round(percentChange): the nearest integer, a half going up
        exact == (2 * num + sum) \div (2 * sum)
        rounded == IF (2 * num + sum) % (2 * sum) = 0 /\ slip < 0 THEN exact - 1 ELSE exact
        change == IF sum = 0 THEN << "Infinity", "%" >>
                  ELSE Append(ToDigits(Abs(rounded)), "%")
    IN IF Len(recentHistory) = 0 THEN << >>
       ELSE IF currentVitals.hr = EmptyString THEN << >>
       ELSE IF currentHR = << >> THEN << >>
       ELSE IF ~MeanUsable(sum, count) THEN << >>
       ELSE IF over
            THEN << [metric |-> "Heart Rate",
                     change |-> change,
                     direction |-> IF num > 0 THEN "up" ELSE "down"] >>
            ELSE << >>

-----------------------------------------------------------------------------
(* App: history load, inputs, handleAnalyze, clearHistory *)

Ids(items) == {items[i].id : i \in 1..Len(items)}

\* Variant: JSON.parse is not guarded, so a blob it rejects ends the mount.
LoadHistoryUncaught ==
    /\ ~mounted
    /\ storage.kind # "corrupt"
    /\ mounted' = TRUE
    /\ history' = IF storage.kind = "json" THEN storage.items ELSE history
    /\ UNCHANGED <<symptoms, selectedImage, vitals, isAnalyzing, result, error,
                   trendInsights, storage, closure, nextId, analyses, cleared>>
    /\ UNCHANGED asVars
    /\ UNCHANGED localAnalysis
    /\ UNCHANGED docVars
    /\ UNCHANGED trendVars

\* Mount effect, part_000:109-118.
LoadHistory ==
    /\ ~mounted
    /\ mounted' = TRUE
    /\ history' = IF storage.kind = "json" THEN storage.items ELSE history
    /\ UNCHANGED <<symptoms, selectedImage, vitals, isAnalyzing, result, error,
                   trendInsights, storage, closure, nextId, analyses, cleared>>
    /\ UNCHANGED asVars
    /\ UNCHANGED localAnalysis
    /\ UNCHANGED docVars
    /\ UNCHANGED trendVars

\* Textarea onChange, part_000:415.
SetSymptoms(text) ==
    /\ mounted
    /\ symptoms # text
    /\ symptoms' = text
    /\ UNCHANGED <<mounted, selectedImage, vitals, isAnalyzing, result, error, history,
                   trendInsights, storage, closure, nextId, analyses, cleared>>
    /\ UNCHANGED asVars
    /\ UNCHANGED localAnalysis
    /\ UNCHANGED docVars
    /\ UNCHANGED trendVars

\* handleImageUpload / removeImage, part_000:226-247.
SetSelectedImage(present) ==
    /\ mounted
    /\ selectedImage # present
    /\ selectedImage' = present
    /\ UNCHANGED <<mounted, symptoms, vitals, isAnalyzing, result, error, history,
                   trendInsights, storage, closure, nextId, analyses, cleared>>
    /\ UNCHANGED asVars
    /\ UNCHANGED localAnalysis
    /\ UNCHANGED docVars
    /\ UNCHANGED trendVars

\* Variant: the effect adds the new alerts to the list it finds.
ChangeVitalsAccumulating(field, value) ==
    /\ mounted
    /\ vitals[field] # value
    /\ vitals' = [vitals EXCEPT ![field] = value]
    /\ localAnalysis' = localAnalysis \o LocalAlerts(vitals')
    /\ UNCHANGED <<mounted, symptoms, selectedImage, isAnalyzing, result, error, history,
                   trendInsights, storage, closure, nextId, analyses, cleared>>
    /\ UNCHANGED asVars
    /\ UNCHANGED docVars
    /\ UNCHANGED trendVars

\* Vitals field onChange, part_000:463-503, and the effect that the new
\* vitals trigger, part_000:120-161.
ChangeVitals(field, value) ==
    /\ mounted
    /\ vitals[field] # value
    /\ vitals' = [vitals EXCEPT ![field] = value]
    /\ localAnalysis' = LocalAlerts(vitals')
    /\ UNCHANGED <<mounted, symptoms, selectedImage, isAnalyzing, result, error, history,
                   trendInsights, storage, closure, nextId, analyses, cleared>>
    /\ UNCHANGED asVars
    /\ UNCHANGED docVars
    /\ UNCHANGED trendVars

\* The same handler while the analysis flow is exercised: one vital sign is
\* entered at a time.
SetVitals(field, value) ==
    /\ value # EmptyString => \A g \in VitalFields \ {field} : vitals[g] = EmptyString
    /\ ChangeVitals(field, value)

\* part_000:276 and the disabled attribute of the submit button, part_000:576.
NothingToAnalyze ==
    /\ IsBlank(symptoms)
    /\ ~selectedImage
    /\ \A f \in VitalFields : vitals[f] = EmptyString

\* Variant: the submit button looks at the content only.
SubmitDisabledContentOnly == NothingToAnalyze

\* The disabled attribute of the submit button, part_000:576.
SubmitDisabled == isAnalyzing \/ NothingToAnalyze

\* Submit of the form while its button is enabled, then handleAnalyze up to
\* its await, part_000:274-288.
HandleAnalyzeSubmit ==
    /\ mounted
    /\ ~SubmitDisabled
    /\ ~NothingToAnalyze
    /\ analyses < MaxAnalyses
    /\ analyses' = analyses + 1
    /\ isAnalyzing' = TRUE
    /\ error' = << >>
    /\ result' = << >>
    /\ trendInsights' = calculateTrends(vitals, history)
    /\ closure' = << [symptoms |-> symptoms, selectedImage |-> selectedImage,
                      vitals |-> vitals, history |-> history] >>
    /\ AnalyzeStart(symptoms, selectedImage, vitals, "English")
    /\ UNCHANGED <<mounted, symptoms, selectedImage, vitals, history, storage,
                   nextId, cleared>>
    /\ UNCHANGED localAnalysis
    /\ UNCHANGED docVars
    /\ UNCHANGED trendVars

\* Variant: the item gets a vitals object only when a vital sign was entered.
NewHistoryItemVitalsWhenEntered(id, c) ==
    [id |-> id,
     symptoms |-> IF c.symptoms # "" THEN c.symptoms
                  ELSE IF c.selectedImage THEN "[Image Scan Analysis]"
                  ELSE "[Vitals Analysis]",
     hasVitals |-> \E f \in VitalFields : c.vitals[f] # EmptyString,
     vitals |-> c.vitals]

\* part_000:291-297
NewHistoryItem(id, c) ==
    [id |-> id,
     symptoms |-> IF c.symptoms # "" THEN c.symptoms
                  ELSE IF c.selectedImage THEN "[Image Scan Analysis]"
                  ELSE "[Vitals Analysis]",
     hasVitals |-> TRUE,
     vitals |-> c.vitals]

\* Variant: the list is never cut.
UpdatedHistoryUncut(item, list) == << item >> \o list

\* part_000:299
UpdatedHistory(item, list) == Slice(<< item >> \o list, HistoryCap)

\* Variant: a failed analysis is recorded as well.
AnalyzeSettleFailRecorded(err) ==
    /\ isAnalyzing
    /\ closure # << >>
    /\ AnalyzeFail(err)
    /\ error' = asThrown'
    /\ isAnalyzing' = FALSE
    /\ closure' = << >>
    /\ history' = UpdatedHistory(NewHistoryItem(nextId, closure[1]), closure[1].history)
    /\ storage' = stringify(history')
    /\ nextId' = nextId + 1
    /\ UNCHANGED <<mounted, symptoms, selectedImage, vitals, result, trendInsights,
                   analyses, cleared>>
    /\ UNCHANGED localAnalysis
    /\ UNCHANGED docVars
    /\ UNCHANGED trendVars

\* Variant: the new item is put onto the history as it is when the call settles.
AnalyzeSettleOkOntoCurrent(response) ==
    /\ isAnalyzing
    /\ closure # << >>
    /\ AnalyzeRespond(response, "English")
    /\ result' = asReturn'
    /\ history' = UpdatedHistory(NewHistoryItem(nextId, closure[1]), history)
    /\ storage' = stringify(history')
    /\ nextId' = nextId + 1
    /\ isAnalyzing' = FALSE
    /\ closure' = << >>
    /\ UNCHANGED <<mounted, symptoms, selectedImage, vitals, error, trendInsights,
                   analyses, cleared>>
    /\ UNCHANGED localAnalysis
    /\ UNCHANGED docVars
    /\ UNCHANGED trendVars

\* analyzeSymptoms resolved: its continuation and the rest of handleAnalyze,
\* part_000:289-304 and 308-310.  checkOutbreaks only sets the outbreak banner.
AnalyzeSettleOk(response) ==
    /\ isAnalyzing
    /\ closure # << >>
    /\ AnalyzeRespond(response, "English")
    /\ result' = asReturn'
    /\ history' = UpdatedHistory(NewHistoryItem(nextId, closure[1]), closure[1].history)
    /\ storage' = stringify(history')
    /\ nextId' = nextId + 1
    /\ isAnalyzing' = FALSE
    /\ closure' = << >>
    /\ UNCHANGED <<mounted, symptoms, selectedImage, vitals, error, trendInsights,
                   analyses, cleared>>
    /\ UNCHANGED localAnalysis
    /\ UNCHANGED docVars
    /\ UNCHANGED trendVars

\* analyzeSymptoms rejected: part_000:306-310.
AnalyzeSettleFail(err) ==
    /\ isAnalyzing
    /\ closure # << >>
    /\ AnalyzeFail(err)
    /\ error' = asThrown'
    /\ isAnalyzing' = FALSE
    /\ closure' = << >>
    /\ UNCHANGED <<mounted, symptoms, selectedImage, vitals, result, history,
                   trendInsights, storage, nextId, analyses, cleared>>
    /\ UNCHANGED localAnalysis
    /\ UNCHANGED docVars
    /\ UNCHANGED trendVars

\* Variant: the persisted item is left as it is.
ClearedStorageKept == storage

\* part_000:315
ClearedStorage == AbsentItem

\* part_000:313-316; the control is rendered while the history is not empty
\* (part_000:659).
clearHistory ==
    /\ mounted
    /\ Len(history) > 0
    /\ history' = << >>
    /\ storage' = ClearedStorage
    /\ cleared' = cleared \cup Ids(history)
    /\ UNCHANGED <<mounted, symptoms, selectedImage, vitals, isAnalyzing, result, error,
                   trendInsights, closure, nextId, analyses>>
    /\ UNCHANGED asVars
    /\ UNCHANGED localAnalysis
    /\ UNCHANGED docVars
    /\ UNCHANGED trendVars

AppInit ==
    /\ mounted = FALSE
    /\ symptoms = ""
    /\ selectedImage = FALSE
    /\ vitals = NoVitals
    /\ isAnalyzing = FALSE
    /\ result = << >>
    /\ error = << >>
    /\ history = << >>
    /\ trendInsights = << >>
    /\ localAnalysis = << >>
    /\ storage \in SavedStates
    /\ closure = << >>
    /\ nextId = HistoryCap + 1
    /\ analyses = 0
    /\ cleared = {}
    /\ asPc = "idle"
    /\ asCalls = 0
    /\ asArgs = << >>
    /\ asPrompt = << >>
    /\ asResponse = << >>
    /\ asCause = << >>
    /\ asReturn = << >>
    /\ asThrown = << >>
    /\ trArgs = << >>
    /\ trReturn = << >>

AppNext ==
    \/ LoadHistory
    \/ \E text \in SymptomInputs : SetSymptoms(text)
    \/ \E present \in BOOLEAN : SetSelectedImage(present)
    \/ \E field \in VitalFields :
          \E value \in VitalInputs[field] \cup {EmptyString} : SetVitals(field, value)
    \/ HandleAnalyzeSubmit
    \/ \E response \in AppResponses : AnalyzeSettleOk(response)
    \/ \E err \in RemoteErrors : AnalyzeSettleFail(err)
    \/ clearHistory

-----------------------------------------------------------------------------
(* analyzeSymptoms called on its own, over a range of replies *)

uiVars == <<mounted, symptoms, selectedImage, vitals, isAnalyzing, result, error,
            history, trendInsights, localAnalysis, storage, closure, nextId, analyses, cleared>>

\* What may stand before the header on the first line of a reply.
Leads == { << >>, << " " >>, << "Intro", "\n" >> }

\* The score half of the header: well formed, without the space, out of the
\* documented range, at the bucket limits, without digits, without the colon.
ScoreParts ==
    { << "CONFIDENCE_SCORE", ":", " ", "7", "2" >>,
      << "CONFIDENCE_SCORE", ":", "1", "5", "0" >>,
      << "CONFIDENCE_SCORE", ":", " ", "9", "0" >>,
      << "CONFIDENCE_SCORE", ":", " ", "4", "9" >>,
      << "CONFIDENCE_SCORE", ":", " ", "0" >>,
      << "CONFIDENCE_SCORE", ":", " ", "High" >>,
      << "CONFIDENCE_SCORE", " ", "9", "0" >>,
      << >> }

\* The label half of the header.
LabelParts ==
    { << "CONFIDENCE_LABEL", ":", " ", "Medium" >>,
      << "CONFIDENCE_LABEL", ":", "High" >>,
      << "CONFIDENCE_LABEL", ":", " ", "Low" >>,
      << "CONFIDENCE_LABEL", ":", " ", "Maybe" >>,
      << "CONFIDENCE_LABEL", ":", " ", "|" >>,
      << >> }

\* What follows the first line.
Bodies ==
    { << >>,
      << "\n", "Body", " ", "text" >>,
      << "\n", "\n", " ", "Body", "\n", "text", " ", "\n" >> }

AnalysisTexts ==
    { lead \o score \o << " ", "|", " " >> \o label \o body :
        lead \in Leads, score \in ScoreParts, label \in LabelParts, body \in Bodies }
      \cup { << >>, Headed }

AnalysisGroundingLists ==
    GroundingLists
      \cup { << WebChunk("Flu facts", "https://flu.example"),
                WebChunk("", "https://untitled.example"),
                MapsChunk("City Clinic", "maps://clinic", "1 Main St"),
                WebChunk("Dr. Rao", "https://rao.example") >> }

\* hasText = FALSE: response.text is undefined; hasChunks = FALSE: there is no
\* groundingMetadata.groundingChunks.
AnalysisResponses ==
    [hasText : {TRUE}, text : AnalysisTexts, hasChunks : {TRUE},
     chunks : AnalysisGroundingLists]
      \cup [hasText : {TRUE}, text : {Headed, << >>}, hasChunks : {FALSE}, chunks : {<< >>}]
      \cup [hasText : {FALSE}, text : {<< >>}, hasChunks : BOOLEAN, chunks : {<< >>}]

\* The vitals objects a caller passes: each field empty or filled.
PromptVitals ==
    [temp : {EmptyString, << "1", "0", "1" >>},
     hr : {EmptyString, << "7", "0" >>},
     bpSys : {EmptyString, << "1", "2", "0" >>},
     bpDia : {EmptyString, << "8", "0" >>},
     spo2 : {EmptyString, << "9", "7" >>}]

\* A caller invokes analyzeSymptoms (geminiService.ts:5-86).
CallAnalyzeSymptoms(symptomsArg, image, vitalsArg) ==
    /\ asPc # "awaiting"
    /\ AnalyzeStart(symptomsArg, image, vitalsArg, "English")
    /\ UNCHANGED uiVars
    /\ UNCHANGED docVars
    /\ UNCHANGED trendVars

\* The invocation resolves (geminiService.ts:88-137).
AnalyzeSymptomsReturns(response) ==
    /\ AnalyzeRespond(response, "English")
    /\ UNCHANGED uiVars
    /\ UNCHANGED docVars
    /\ UNCHANGED trendVars

\* The invocation rejects (geminiService.ts:138-141).
AnalyzeSymptomsThrows(err) ==
    /\ AnalyzeFail(err)
    /\ UNCHANGED uiVars
    /\ UNCHANGED docVars
    /\ UNCHANGED trendVars

AnalyzeNext ==
    \/ \E symptomsArg \in SymptomInputs, image \in BOOLEAN, vitalsArg \in PromptVitals :
          CallAnalyzeSymptoms(symptomsArg, image, vitalsArg)
    \/ \E response \in AnalysisResponses : AnalyzeSymptomsReturns(response)
    \/ \E err \in RemoteErrors : AnalyzeSymptomsThrows(err)

-----------------------------------------------------------------------------
(* calculateTrends called on its own, over a range of histories *)

\* Heart rates of stored entries: the text in the entry and the number it
\* denotes.  "none" is an entry stored without a vitals object, "empty" one
\* whose heart rate field was left empty.
HrKinds ==
    { [kind |-> "none", text |-> << >>, value |-> 0],
      [kind |-> "empty", text |-> << >>, value |-> 0],
      [kind |-> "0", text |-> << "0" >>, value |-> 0],
      [kind |-> "70", text |-> << "7", "0" >>, value |-> 70],
      [kind |-> "80", text |-> << "8", "0" >>, value |-> 80] }

HrKind(kind) == CHOOSE k \in HrKinds : k.kind = kind

TrendItem(kind, id) ==
    [id |-> id, symptoms |-> "cough", hasVitals |-> kind # "none",
     vitals |-> [NoVitals EXCEPT !.hr = HrKind(kind).text]]

\* The history whose entries, newest first, are of the given kinds.
TrendHistory(kinds) == [i \in 1..Len(kinds) |-> TrendItem(kinds[i], Len(kinds) + 1 - i)]

\* The newest entries of a history: every sequence of up to MaxTrendPrefix
\* entries, each without vitals, without a heart rate, or with 70 or 80.
MaxTrendPrefix == 3

NewestKinds ==
    UNION { [1..n -> {"none", "empty", "70", "80"}] : n \in 0..MaxTrendPrefix }

\* The older entries that follow them.
OlderKinds ==
    { << >>,
      << "70", "70" >>,
      << "0" >>,
      << "empty", "80", "80" >>,
      << "80", "none", "80", "80" >> }

TrendHistories == { TrendHistory(newest \o older) : newest \in NewestKinds, older \in OlderKinds }

\* The current heart rate, each text with the number it denotes.
CurrentHrSamples ==
    { [text |-> << "6", "3" >>, value |-> 63],
      [text |-> << "6", "9" >>, value |-> 69],
      [text |-> << "7", "0" >>, value |-> 70],
      [text |-> << "8", "5" >>, value |-> 85],
      [text |-> << "9", "0" >>, value |-> 90] }

TrendVitals ==
    { [NoVitals EXCEPT !.hr = r.text] : r \in CurrentHrSamples } \cup { NoVitals }

\* The call of calculateTrends that is followed (part_000:163-194); the
\* function is synchronous.
CallCalculateTrends(currentVitals, historyData) ==
    /\ trArgs = << >>
    /\ trArgs' = << [currentVitals |-> currentVitals, historyData |-> historyData] >>
    /\ trReturn' = calculateTrends(currentVitals, historyData)
    /\ UNCHANGED uiVars
    /\ UNCHANGED asVars
    /\ UNCHANGED docVars

TrendsNext ==
    \E currentVitals \in TrendVitals :
        \E historyData \in TrendHistories : CallCalculateTrends(currentVitals, historyData)

-----------------------------------------------------------------------------
(* Specifications *)

vars == <<docVars, appVars>>

\* The doctor finder on its own: the App stays as constructed.
InitDoc == DocInit /\ AppInit /\ storage = AbsentItem
SpecDoc == InitDoc /\ [][DocNext]_vars

\* The same, with the browser and the remote service answering in the end:
\* getCurrentPosition calls one of its two callbacks (the options of
\* DoctorFinder.tsx:31-35 set a timeout, after which the error callback
\* runs), and each generateContent call resolves or rejects.
GeoCallback == GeoSuccess \/ \E code \in GeoErrorCodes : GeoError(code)
Stage1Settles ==
    \/ \E response \in DoctorResponses : Stage1Respond(response)
    \/ \E err \in RemoteErrors : Stage1Fail(err)
Stage2Settles ==
    \/ \E response \in DoctorResponses : Stage2Respond(response)
    \/ \E err \in RemoteErrors : Stage2Fail(err)

SpecDocLive ==
    /\ InitDoc
    /\ [][DocNext]_vars
    /\ WF_vars(GeoCallback)
    /\ WF_vars(Stage1Settles)
    /\ WF_vars(Stage2Settles)

\* The App on its own: the doctor finder stays as constructed.
InitApp == AppInit /\ DocInit /\ geoSupported = TRUE
SpecApp == InitApp /\ [][AppNext]_vars

\* analyzeSymptoms on its own: neither component takes a step.
InitAnalyze == AppInit /\ DocInit /\ storage = AbsentItem /\ geoSupported = TRUE
SpecAnalyze == InitAnalyze /\ [][AnalyzeNext]_vars

\* The vitals form and its local analysis on their own.
VitalsNext ==
    \/ LoadHistory
    \/ \E field \in VitalFields :
          \E value \in VitalSamples[field] \cup {EmptyString} : ChangeVitals(field, value)

InitVitals == AppInit /\ DocInit /\ storage = AbsentItem /\ geoSupported = TRUE
SpecVitals == InitVitals /\ [][VitalsNext]_vars

\* calculateTrends on its own.
InitTrends == AppInit /\ DocInit /\ storage = AbsentItem /\ geoSupported = TRUE
SpecTrends == InitTrends /\ [][TrendsNext]_vars

-----------------------------------------------------------------------------
(* Properties of findNearbyDoctors *)

Stage1Citations ==
    IF fdStage1Result = << >> THEN 0 ELSE Len(fdStage1Result[1].mapSources)

Stage1CameBackEmpty == fdStage1Result # << >> /\ Stage1Citations = 0

\* C1: whenever the maps-grounded call succeeded with at least one citation,
\* the invocation has returned exactly the Stage 1 result and the only request
\* it ever issued is the maps-grounded one (no web-search request).
C1_Stage1HitSkipsStage2 ==
    Stage1Citations >= 1 =>
        /\ fdPc = "returned"
        /\ fdReturn = fdStage1Result
        /\ doctorResult = fdStage1Result
        /\ fdIssued = << "maps" >>
        /\ fdStage2 = "none"
        /\ fdStage2Response = << >>

C1_Witness ==
    /\ Stage1Citations >= 1
    /\ fdPc = "returned"
    /\ fdStage1Response # << >>

\* C2: whenever Stage 1 raised an error or came back with zero citations, the
\* web-search request has been issued exactly once, and once it has answered,
\* the invocation has resolved (no error) with the content and citations of
\* that answer, an empty citation list included.
C2_FallbackIssuedOnceAndReturned ==
    (fdStage1 = "error" \/ Stage1CameBackEmpty) =>
        /\ fdIssued = << "maps", "search" >>
        /\ fdStage2Response # << >> =>
              /\ fdPc = "returned"
              /\ fdThrown = << >>
              /\ doctorError = << >>
              /\ fdReturn # << >>
              /\ doctorResult = fdReturn
              /\ fdReturn[1].content =
                    (IF fdStage2Response[1].text # ""
                     THEN fdStage2Response[1].text ELSE "Search Results")
              /\ Len(fdReturn[1].mapSources) <= Len(fdStage2Response[1].chunks)
              /\ \A i \in 1..Len(fdReturn[1].mapSources) :
                    \E j \in 1..Len(fdStage2Response[1].chunks) :
                        /\ fdReturn[1].mapSources[i].title = fdStage2Response[1].chunks[j].title
                        /\ fdReturn[1].mapSources[i].uri = fdStage2Response[1].chunks[j].uri

C2_Witness ==
    /\ fdStage1 = "error"
    /\ fdStage2Response # << >>
    /\ fdPc = "returned"
    /\ fdReturn[1].mapSources = << >>

\* C3: the invocation has failed exactly when the web-search request was
\* issued and itself raised an error; a Stage 1 error whose fallback answered
\* leaves the invocation resolved.
C3_FailsIffStage2Fails ==
    /\ (fdPc = "thrown") <=> (fdStage2 = "error" /\ fdIssued = << "maps", "search" >>)
    /\ (fdThrown # << >>) <=> (fdPc = "thrown")
    /\ (fdStage1 = "error" /\ fdStage2 = "ok") => (fdPc = "returned" /\ fdThrown = << >>)
    /\ (fdStage1 = "error" /\ fdStage2 = "pending") => fdPc = "stage2"

C3_Witness ==
    /\ fdStage1 = "error"
    /\ fdStage2 = "error"
    /\ fdPc = "thrown"
    /\ doctorError = << DoctorLookupFailedMsg >>

\* C4: at most one request of the invocation is outstanding, at most two are
\* issued, in the order maps then search, and the web-search request is
\* outstanding only after the maps request has completed or failed.
C4_RequestsSequential ==
    /\ Cardinality(fdInFlight) <= 1
    /\ Len(fdIssued) <= 2
    /\ fdIssued \in { << >>, << "maps" >>, << "maps", "search" >> }
    /\ "search" \in fdInFlight => (fdStage1 \in {"empty", "error"} /\ "maps" \notin fdInFlight)
    /\ Len(fdIssued) = 2 => fdStage1 \in {"empty", "error"}

C4_Witness ==
    /\ fdInFlight = {"search"}
    /\ fdIssued = << "maps", "search" >>
    /\ Stage1CameBackEmpty

-----------------------------------------------------------------------------
(* Properties of the history and of handleAnalyze *)

NewestFirst(list) == \A i \in 1..(Len(list) - 1) : list[i].id > list[i + 1].id

\* A step in which the running analysis ends, with and without an error.
FailureStep == isAnalyzing /\ ~isAnalyzing' /\ error' # << >>
SuccessStep == isAnalyzing /\ ~isAnalyzing' /\ error' = << >>
SubmitStep == ~isAnalyzing /\ isAnalyzing'

\* C5: the history, in memory and as persisted, always holds at most 10 items,
\* newest first; a successful analysis that finds 10 items leaves exactly 10,
\* the new item first and the oldest one gone.
C5_HistoryBoundedNewestFirst ==
    /\ [](/\ Len(history) <= HistoryCap
          /\ NewestFirst(history)
          /\ Len(storage.items) <= HistoryCap
          /\ NewestFirst(storage.items))
    /\ [][ (SuccessStep /\ Len(history) = HistoryCap) =>
              /\ Len(history') = HistoryCap
              /\ history'[1].id \notin Ids(history)
              /\ \A i \in Ids(history) : history'[1].id > i
              /\ Tail(history') = SubSeq(history, 1, HistoryCap - 1)
              /\ history[HistoryCap].id \notin Ids(history') ]_vars

C5_Witness ==
    /\ asPc = "returned"
    /\ Len(history) = HistoryCap
    /\ history[1].id = HistoryCap + 1
    /\ history[HistoryCap].id = 2
    /\ storage = stringify(history)

\* C6: no item that was in the history when clearHistory ran is in the
\* in-memory history or in the persisted list afterwards.
C6_ClearedItemsStayGone ==
    \A i \in cleared : i \notin Ids(history) /\ i \notin Ids(storage.items)

C8_TrendsAndAppendUseSubmitSnapshot ==
    [][ /\ SubmitStep =>
              /\ closure' # << >>
              /\ closure'[1].history = history
              /\ closure'[1].vitals = vitals
              /\ trendInsights' = calculateTrends(vitals, history)
              /\ \A i \in Ids(history) : i < nextId
        /\ (isAnalyzing /\ isAnalyzing') =>
              (closure' = closure /\ trendInsights' = trendInsights /\ nextId' = nextId)
        /\ SuccessStep =>
              /\ nextId \notin Ids(closure[1].history)
              /\ history'[1].id = nextId
              /\ history'[1].vitals = closure[1].vitals
              /\ Tail(history') = Slice(closure[1].history, HistoryCap - 1)
              /\ trendInsights' = trendInsights
              /\ trendInsights = calculateTrends(closure[1].vitals, closure[1].history) ]_vars

C8_Witness ==
    /\ asPc = "returned"
    /\ ~isAnalyzing
    /\ cleared # {}
    /\ history # << >>
    /\ history[1].vitals.hr = << "8", "5" >>
    /\ trendInsights = << [metric |-> "Heart Rate", change |-> << "2", "1", "%" >>,
                           direction |-> "up"] >>

-----------------------------------------------------------------------------
(* Properties of analyzeSymptoms *)

\* C9: an invocation issues exactly one generateContent call, and when that
\* call raises an error, whichever it is, the invocation rejects with the one
\* fixed message and returns nothing.
C9_OneCallFixedMessage ==
    /\ asPc # "idle" => asCalls = 1
    /\ asCause # << >> <=> asPc = "thrown"
    /\ asPc = "thrown" =>
          /\ asThrown = << AnalysisFailedMsg >>
          /\ asReturn = << >>
          /\ error = << AnalysisFailedMsg >>
          /\ result = << >>
    /\ asPc \in {"idle", "awaiting", "returned"} => asThrown = << >>

C9_Witness ==
    /\ asPc = "thrown"
    /\ asCause = << "auth" >>
    /\ asCalls = 1
    /\ error = << AnalysisFailedMsg >>

NoUsableText(response) == ~response.hasText \/ response.text = << >>

\* C10 as stated: a response without usable text makes analyzeSymptoms fail
\* and return no AnalysisResult.
C10_NoTextFails ==
    (asResponse # << >> /\ NoUsableText(asResponse[1])) =>
        (asPc = "thrown" /\ asReturn = << >>)

\* C10: a response whose text is empty or absent does not make analyzeSymptoms
\* fail: it resolves with an AnalysisResult whose content is the fixed
\* placeholder sentence and whose confidence is score 0, label Low.
C10_NoTextGivesPlaceholder ==
    (asResponse # << >> /\ NoUsableText(asResponse[1])) =>
        /\ asPc = "returned"
        /\ asThrown = << >>
        /\ asReturn # << >>
        /\ asReturn[1].content = NoTextPlaceholder
        /\ asReturn[1].confidence = [score |-> 0, label |-> << "Low" >>]
        /\ result = asReturn
        /\ error = << >>

C10_Witness ==
    /\ asResponse # << >>
    /\ ~asResponse[1].hasText
    /\ asPc = "returned"
    /\ history # << >>
    /\ history[1].id = nextId - 1

-----------------------------------------------------------------------------
(* Properties of the reply parser of analyzeSymptoms *)

Reply == asResponse[1]
Returned == asReturn[1]

BucketLabels == { << "High" >>, << "Medium" >>, << "Low" >> }

\* The header patterns of geminiService.ts:97-102 all succeed on the first line.
HeaderParses(text) ==
    LET firstLine == trim(split(text)[1]) IN
    /\ HasMarker(firstLine)
    /\ MatchAfter(firstLine, "CONFIDENCE_SCORE", DigitToks) # << >>
    /\ MatchAfter(firstLine, "CONFIDENCE_LABEL", WordToks) # << >>

OutOfRangeReply == << "CONFIDENCE_SCORE", ":", "1", "5", "0", " ", "|", " ",
                      "CONFIDENCE_LABEL", ":", " ", "Maybe", "\n", "\n", " ", "Body",
                      "\n", "text", " ", "\n" >>

ScorelessReply == << "CONFIDENCE_SCORE", ":", " ", "High", " ", "|", " ",
                     "CONFIDENCE_LABEL", ":", " ", "Medium", "\n", "Body", " ", "text" >>

\* C11: every AnalysisResult that analyzeSymptoms returns has a score within
\* 0..100, a label among High, Medium and Low, and a label that is the bucket
\* of its score (High 80-100, Medium 50-79, Low 0-49).
C11_ConfidenceWithinBuckets ==
    asReturn # << >> =>
        LET c == Returned.confidence IN
        /\ c.score \in 0..100
        /\ c.label \in BucketLabels
        /\ c.label = << "High" >> <=> c.score \in 80..100
        /\ c.label = << "Medium" >> <=> c.score \in 50..79
        /\ c.label = << "Low" >> <=> c.score \in 0..49

\* C12: when the first line of the reply carries the marker and both header
\* patterns match, the returned confidence is exactly the parsed score and
\* label, and the content is every line after the first, joined and trimmed;
\* "CONFIDENCE_SCORE: 72 | CONFIDENCE_LABEL: Medium\nBody text" gives 72,
\* Medium and "Body text".
C12_HeaderParsedAndStripped ==
    (asReturn # << >> /\ HeaderParses(FullText(Reply))) =>
        LET text == FullText(Reply)
            firstLine == trim(split(text)[1])
            score == MatchAfter(firstLine, "CONFIDENCE_SCORE", DigitToks)[1]
            label == MatchAfter(firstLine, "CONFIDENCE_LABEL", WordToks)[1]
        IN /\ Returned.confidence = [score |-> DigitsValue(score), label |-> label]
           /\ Returned.content = trim(join(Tail(split(text))))
           /\ text = Headed =>
                 /\ Returned.confidence = [score |-> 72, label |-> << "Medium" >>]
                 /\ Returned.content = << "Body", " ", "text" >>
           /\ text = OutOfRangeReply =>
                 /\ Returned.confidence = [score |-> 150, label |-> << "Maybe" >>]
                 /\ Returned.content = << "Body", "\n", "text" >>

C12_Witness ==
    /\ asPc = "returned"
    /\ Reply.text = Headed
    /\ Returned.confidence.score = 72
    /\ Returned.content = << "Body", " ", "text" >>

C15_SourcesAreCompleteWebEntries ==
    asReturn # << >> =>
        LET Cited(chunk) == chunk.type = "web" /\ chunk.title # "" /\ chunk.uri # ""
            kept == IF Reply.hasChunks THEN SelectSeq(Reply.chunks, Cited) ELSE << >>
        IN Returned.sources =
              [i \in 1..Len(kept) |-> [title |-> kept[i].title, uri |-> kept[i].uri]]

C15_Witness ==
    /\ asPc = "returned"
    /\ Len(Reply.chunks) = 4
    /\ Returned.sources = << [title |-> "Flu facts", uri |-> "https://flu.example"],
                             [title |-> "Dr. Rao", uri |-> "https://rao.example"] >>

-----------------------------------------------------------------------------
(* Properties of the fallback stage and of the geolocation callbacks *)

Stage2Reply == fdStage2Response[1]

\* C14: the citation list returned by Stage 2 holds web-type citations only:
\* no maps-type grounding entry of the Stage 2 reply appears in the result.
C14_Stage2CitesWebOnly ==
    (fdStage2 = "ok" /\ fdReturn # << >>) =>
        \A i \in 1..Len(Stage2Reply.chunks) :
            Stage2Reply.chunks[i].type = "maps" =>
                \A j \in 1..Len(fdReturn[1].mapSources) :
                    fdReturn[1].mapSources[j].uri # Stage2Reply.chunks[i].uri

\* C14, as the code has it: the citation list returned by Stage 2 holds, in
\* the order of the reply, every grounding entry that has a title and a URI,
\* a maps-type entry with its address and a web-type entry with an empty one.
C14_Stage2CitesEveryCompleteEntry ==
    (fdStage2 = "ok" /\ fdReturn # << >>) =>
        LET Complete(chunk) == chunk.title # "" /\ chunk.uri # ""
            kept == IF Stage2Reply.hasChunks
                    THEN SelectSeq(Stage2Reply.chunks, Complete) ELSE << >>
        IN fdReturn[1].mapSources =
              [i \in 1..Len(kept) |->
                  [title |-> kept[i].title, uri |-> kept[i].uri,
                   address |-> IF kept[i].type = "maps" THEN kept[i].address ELSE ""]]

C14_Witness ==
    /\ fdPc = "returned"
    /\ fdStage2 = "ok"
    /\ Len(Stage2Reply.chunks) = 2
    /\ fdReturn[1].mapSources =
          << [title |-> "Dr. Rao", uri |-> "https://rao.example", address |-> ""],
             [title |-> "City Clinic", uri |-> "maps://clinic", address |-> "1 Main St"] >>

\* What the user is told for each GeolocationPositionError code.
FailureReport(code) ==
    CASE code = 1 -> "Location access denied. Please enable permissions."
      [] code = 2 -> "Location unavailable. Please check your GPS/Network."
      [] code = 3 -> "Location request timed out."

\* C17: permission denied, position unavailable and timeout each leave their
\* own error message, different from the other two; the step that reports
\* one of them ends the loading state and issues no findNearbyDoctors call.
C17_GeoFailuresReportedApart ==
    /\ [](geoFailure # << >> =>
            /\ doctorError = << FailureReport(geoFailure[1]) >>
            /\ \A other \in GeoErrorCodes \ {geoFailure[1]} :
                  doctorError # << FailureReport(other) >>
            /\ ~loading
            /\ doctorResult = << >>)
    /\ [][geoFailure' # << >> /\ geoFailure = << >> =>
            /\ loading /\ ~loading'
            /\ UNCHANGED fdVars
            /\ fdInFlight' = {}]_vars

C17_Witness ==
    /\ geoFailure = << 3 >>
    /\ doctorError = << "Location request timed out." >>
    /\ ~loading
    /\ lookups = 2
    /\ fdPc = "thrown"

-----------------------------------------------------------------------------
(* Properties of the history load at startup *)

NoUsableBlob == storage.kind \in {"absent", "corrupt"}

\* C16: with an absent or unparseable blob the mount effect completes, leaves
\* the in-memory history empty and shows no error; afterwards a filled form
\* can be submitted, and a successful analysis puts its item in the history
\* and writes the history to the blob.
C16_BadBlobLoadsAsEmpty ==
    /\ []((~mounted /\ NoUsableBlob) => ENABLED LoadHistory)
    /\ []((mounted /\ NoUsableBlob /\ ~isAnalyzing /\ ~NothingToAnalyze
             /\ analyses < MaxAnalyses) => ENABLED HandleAnalyzeSubmit)
    /\ [](storage.kind = "corrupt" => history = << >>)
    /\ [][(~mounted /\ mounted' /\ NoUsableBlob) =>
             /\ history' = << >>
             /\ error' = << >>
             /\ storage' = storage]_vars
    /\ [][(SuccessStep /\ NoUsableBlob /\ cleared = {}) =>
             /\ Len(history') = 1
             /\ history'[1].id = nextId
             /\ storage' = [kind |-> "json", items |-> history']]_vars

C16_Witness ==
    /\ storage.kind = "corrupt"
    /\ mounted
    /\ history = << >>
    /\ error = << >>
    /\ isAnalyzing
    /\ asPc = "awaiting"

-----------------------------------------------------------------------------
(* Properties of the local analysis of the vitals *)

Hundredths(text) == (CHOOSE r \in TempSamples : r.text = text).hundredths
Whole(text) == (CHOOSE r \in WholeSamples : r.text = text).value

Populated(field) == vitals[field] # EmptyString

\* The alerts of the current list whose condition is one of names.
AlertsNamed(names) ==
    LET Named(a) == a.condition \in names IN SelectSeq(localAnalysis, Named)

TempAlerts == AlertsNamed({"High Fever", "Fever", "Hypothermia Risk", "Temperature"})
HrAlerts == AlertsNamed({"Tachycardia", "Elevated HR", "Bradycardia", "Heart Rate"})
BpAlerts == AlertsNamed({"Hypertensive Crisis", "High BP", "Elevated BP", "Blood Pressure"})

\* C18: for every populated temperature t there is exactly one temperature
\* alert; it is critical iff t > 103 or t < 95, warning iff 100.4 < t <= 103
\* and normal otherwise; 100.4 is normal and 103.0 is warning.
C18_TemperatureSeverity ==
    Populated("temp") =>
        LET t == Hundredths(vitals.temp) IN
        /\ Len(TempAlerts) = 1
        /\ TempAlerts[1].severity =
              IF t > 10300 \/ t < 9500 THEN "critical"
              ELSE IF 10040 < t /\ t <= 10300 THEN "warning"
              ELSE "normal"
        /\ vitals.temp = << "1", "0", "0", ".", "4" >> => TempAlerts[1].severity = "normal"
        /\ vitals.temp = << "1", "0", "3", ".", "0" >> => TempAlerts[1].severity = "warning"

C18_Witness ==
    /\ vitals.temp = << "1", "0", "0", ".", "4" >>
    /\ localAnalysis = << [condition |-> "Temperature", severity |-> "normal",
                           message |-> "Within normal range."] >>

Spo2Alerts == AlertsNamed({"Hypoxia Risk", "Low Oxygen", "Oxygen Level"})

\* The category an alert belongs to, by its condition name.
CategoryOf(condition) ==
    CASE condition \in {"High Fever", "Fever", "Hypothermia Risk", "Temperature"} -> "temperature"
      [] condition \in {"Tachycardia", "Elevated HR", "Bradycardia", "Heart Rate"} -> "heart rate"
      [] condition \in {"Hypertensive Crisis", "High BP", "Elevated BP", "Blood Pressure"}
           -> "blood pressure"
      [] condition \in {"Hypoxia Risk", "Low Oxygen", "Oxygen Level"} -> "spo2"

PopulatedCategories ==
    (IF Populated("temp") THEN << "temperature" >> ELSE << >>)
      \o (IF Populated("hr") THEN << "heart rate" >> ELSE << >>)
      \o (IF Populated("bpSys") /\ Populated("bpDia") THEN << "blood pressure" >> ELSE << >>)
      \o (IF Populated("spo2") THEN << "spo2" >> ELSE << >>)

\* C21: the alert list holds one entry for each populated category and none
\* for the others, in the order temperature, heart rate, blood pressure,
\* SpO2, and every entry is the alert of the current value of its category:
\* nothing of an earlier value is left.
C21_AlertsRebuiltInOrder ==
    /\ [i \in 1..Len(localAnalysis) |-> CategoryOf(localAnalysis[i].condition)]
          = PopulatedCategories
    /\ TempAlerts = TempAlert(vitals.temp)
    /\ HrAlerts = HrAlert(vitals.hr)
    /\ BpAlerts = BpAlert(vitals.bpSys, vitals.bpDia)
    /\ Spo2Alerts = Spo2Alert(vitals.spo2)

C21_Witness ==
    /\ Populated("temp") /\ Populated("hr") /\ Populated("spo2")
    /\ Populated("bpSys") /\ ~Populated("bpDia")
    /\ Len(localAnalysis) = 3
    /\ localAnalysis[1].condition = "High Fever"
    /\ localAnalysis[2].condition = "Bradycardia"
    /\ localAnalysis[3].condition = "Hypoxia Risk"

-----------------------------------------------------------------------------
(* Properties of calculateTrends *)

TrendCurrent == trArgs[1].currentVitals
TrendPast == trArgs[1].historyData

\* Positions of the entries that carry vitals, of the five newest of those,
\* and of those among the five that have a heart rate.
Carrying == {i \in 1..Len(TrendPast) : TrendPast[i].hasVitals}
FiveNewest == {i \in Carrying : Cardinality({j \in Carrying : j < i}) < 5}
WithHr == {i \in FiveNewest : TrendPast[i].vitals.hr # EmptyString}

HrNumber(text) == (CHOOSE k \in HrKinds : k.text = text).value
CurrentHrNumber == (CHOOSE r \in CurrentHrSamples : r.text = TrendCurrent.hr).value

RECURSIVE HrTotal(_)
HrTotal(positions) ==
    IF positions = {} THEN 0
    ELSE LET i == CHOOSE p \in positions : TRUE
         IN HrNumber(TrendPast[i].vitals.hr) + HrTotal(positions \ {i})

\* The mean is HrTotal(WithHr) / Cardinality(WithHr); Gap is (current - mean)
\* times the divisor, so that the percent change is 100 * Gap / HrTotal(WithHr).
Gap == CurrentHrNumber * Cardinality(WithHr) - HrTotal(WithHr)

\* C22: with a current heart rate, the mean is taken over the entries of the
\* five newest that have a heart rate; there is at most one insight, and one
\* exactly when the mean is positive and the current value differs from it
\* by strictly more than 10%; its change is the absolute percent change
\* rounded to the nearest integer and its direction is up if current > mean,
\* else down; history [70,70,70,70,70] with current 85 gives up, "21%".
C22_InsightIffBeyondTenPercent ==
    (trArgs # << >> /\ TrendCurrent.hr # EmptyString) =>
        LET total == HrTotal(WithHr)
            beyond == /\ WithHr # {}
                      /\ total > 0
                      /\ 100 * Abs(Gap) > 10 * total
        IN /\ Len(trReturn) <= 1
           /\ Len(trReturn) = 1 <=> beyond
           /\ Len(trReturn) = 1 =>
                 /\ trReturn[1].metric = "Heart Rate"
                 /\ trReturn[1].change =
                       Append(ToDigits((200 * Abs(Gap) + total) \div (2 * total)), "%")
                 /\ trReturn[1].direction = IF Gap > 0 THEN "up" ELSE "down"
           /\ (CurrentHrNumber = 85 /\ Cardinality(WithHr) = 5 /\ total = 350) =>
                 /\ Len(trReturn) = 1
                 /\ trReturn[1].direction = "up"
                 /\ trReturn[1].change = << "2", "1", "%" >>

\* C23: calculateTrends returns the empty list, for any current vitals, when
\* the history is empty, when no entry carries vitals, when none of the five
\* newest entries with vitals has a heart rate, and when the mean is not
\* positive; every call returns.
C23_NoUsableHistoryNoInsight ==
    /\ [](trArgs # << >> =>
            ((TrendPast = << >> \/ Carrying = {} \/ WithHr = {} \/ HrTotal(WithHr) <= 0)
                => trReturn = << >>))
    /\ [][trArgs' # << >> => trReturn' \in Seq([metric : {"Heart Rate"},
                                                 change : Seq(STRING),
                                                 direction : {"up", "down"}])]_vars

C23_Witness ==
    /\ trArgs # << >>
    /\ TrendCurrent.hr = << "8", "5" >>
    /\ Len(TrendPast) = 2
    /\ WithHr # {}
    /\ HrTotal(WithHr) = 0
    /\ trReturn = << >>

\* The entries of the history at the given positions, in order.
RECURSIVE Pick(_, _)
Pick(list, positions) ==
    IF list = << >> THEN << >>
    ELSE (IF Len(list) \in positions THEN Pick(SubSeq(list, 1, Len(list) - 1), positions)
                                          \o << list[Len(list)] >>
          ELSE Pick(SubSeq(list, 1, Len(list) - 1), positions))

\* C24: the result is the one the five newest entries that carry vitals give
\* on their own: entries without vitals take none of the five places, and
\* nothing older than the fifth entry with vitals has a part in the mean,
\* which decides the direction of the insight.
C24_FiveNewestWithVitals ==
    trArgs # << >> =>
        /\ trReturn = calculateTrends(TrendCurrent, Pick(TrendPast, FiveNewest))
        /\ trReturn # << >> => (trReturn[1].direction = "up" <=> Gap > 0)
        /\ (WithHr = {} \/ TrendCurrent.hr = EmptyString) => trReturn = << >>

C24_Witness ==
    /\ trArgs # << >>
    /\ Cardinality(Carrying) = 6
    /\ Len(TrendPast) = 7
    /\ ~TrendPast[5].hasVitals
    /\ \A i \in 1..3 : TrendPast[i].vitals.hr = << "7", "0" >>
    /\ TrendCurrent.hr = << "8", "5" >>
    /\ trReturn # << >>
    /\ trReturn[1].change = << "1", "5", "%" >>

-----------------------------------------------------------------------------
(* Properties of the prompt of analyzeSymptoms *)

\* Where a piece of text first stands in a prompt, 0 when it does not.
Position(text, token) ==
    IF \E i \in 1..Len(text) : text[i] = token
    THEN CHOOSE i \in 1..Len(text) : text[i] = token /\ \A j \in 1..(i - 1) : text[j] # token
    ELSE 0

\* C25: when any field of the vitals passed to analyzeSymptoms is present,
\* a lone systolic or diastolic pressure included, the prompt holds a block
\* labelled PATIENT VITALS before the structure instructions; when no field
\* is present there is no such block.
C25_VitalsBlockForAnyField ==
    asArgs # << >> =>
        LET label == Position(asPrompt[1], "PATIENT VITALS:")
            structure == Position(asPrompt[1], "Structure your response in Markdown:")
        IN IF \E f \in VitalFields : asArgs[1].vitals[f] # EmptyString
           THEN 0 < label /\ label < structure
           ELSE label = 0

-----------------------------------------------------------------------------
(* Properties of the analysis in flight and of the persisted history *)

PersistedList == IF storage.kind = "absent" THEN << >> ELSE storage.items

\* C27: once the history has been loaded from an item that parses (or that is
\* absent), the persisted list and the in-memory history are the same after
\* every successful analysis, failed analysis and clear.
C27_StorageAgreesWithHistory ==
    (mounted /\ storage.kind # "corrupt") => PersistedList = history

\* Loaded from 10 saved items, cleared, then one analysis succeeded.
C27_Witness ==
    /\ mounted
    /\ cleared # {}
    /\ asPc = "returned"
    /\ storage.kind = "json"
    /\ Len(history) = 1
    /\ PersistedList = history

-----------------------------------------------------------------------------
(* Progress of the doctor lookup *)

\* C28: when the geolocation callback and the remote calls answer in the
\* end, every click on the find-doctors control is followed by a state in
\* which loading is false and no later click has been made yet, whether
\* geolocation is unsupported, fails, or the lookup succeeds or fails; and no
\* click is taken while loading is true.
C28_LoadingEndsAfterEveryClick ==
    /\ \A n \in 1..MaxLookups : (lookups = n) ~> (lookups = n /\ ~loading)
    /\ [](loading => (~FindControlShown /\ (geoPending \/ fdInFlight # {})))
    /\ [][lookups' # lookups => (~loading /\ fdInFlight = {} /\ ~geoPending)]_vars

\* A click whose geolocation failed, then a click whose lookup was rejected.
C28_Witness ==
    /\ lookups = MaxLookups
    /\ ~loading
    /\ geoFailure = << >>
    /\ fdPc = "thrown"
    /\ fdStage2 = "error"
    /\ doctorError = << DoctorLookupFailedMsg >>

-----------------------------------------------------------------------------
(* Items without vital signs in the trend window *)

\* The 5 newest items all carry a vitals object whose heart rate is empty.
FiveNewestWithoutHr(list) ==
    /\ Len(list) >= 5
    /\ \A i \in 1..5 : list[i].hasVitals /\ list[i].vitals.hr = EmptyString

\* C29: the item a successful analysis puts in front of the history carries
\* the vitals object of the submit, also when every field of it is empty; and
\* a submit made while the 5 newest items all have an empty heart rate gets no
\* insight, whatever heart rates the older items hold.
C29_EmptyVitalsFillTrendWindow ==
    [][ /\ SuccessStep =>
              /\ history'[1].hasVitals
              /\ history'[1].vitals = closure[1].vitals
              /\ storage'.items[1].hasVitals
        /\ (SubmitStep /\ FiveNewestWithoutHr(history)) => trendInsights' = << >> ]_vars

\* A heart rate of 85 was submitted over a history whose 5 newest items have
\* no heart rate and whose older items read 70: no insight, and the new item
\* is on top.
C29_Witness ==
    /\ asPc = "returned"
    /\ trendInsights = << >>
    /\ Len(history) = HistoryCap
    /\ history[1].vitals.hr = << "8", "5" >>
    /\ \A i \in 2..6 : history[i].hasVitals /\ history[i].vitals = NoVitals
    /\ \A i \in 7..HistoryCap : history[i].vitals.hr = << "7", "0" >>

====
